---- MODULE Spec2Model ----
(***************************************************************************)
(* Registry reconciliation engine of mhintz1980/agents.                    *)
(*                                                                         *)
(*   tools/registry-lint.mjs           (src/tools/registry-lint.mjs)       *)
(*   tools/rescue-move-by-basename.mjs (src/MCP_Magic.md, lines 43-97)     *)
(*                                                                         *)
(* Paths, names and category keys are strings; TLC treats a string as the  *)
(* sequence of its one-character strings (Len, Head, Tail, SubSeq, \o).    *)
(***************************************************************************)
EXTENDS Integers, Sequences, FiniteSets, TLC

(***************************************************************************)
(* Characters and JavaScript string primitives                             *)
(***************************************************************************)
LowerLetters == "abcdefghijklmnopqrstuvwxyz"
UpperLetters == "ABCDEFGHIJKLMNOPQRSTUVWXYZ"
Digits == "0123456789"

CharAt(s, i) == SubSeq(s, i, i)

Chars(s) == {CharAt(s, i) : i \in 1..Len(s)}

LowerSet == Chars(LowerLetters)
UpperSet == Chars(UpperLetters)
DigitSet == Chars(Digits)

\* \s of a JavaScript regular expression, and the white space trim() removes
WhiteSpace == {" ", "\t", "\n"}
IsSpace(c) == c \in WhiteSpace

\* the class [a-zA-Z0-9._/ -] of toKebab's strip step
AllowedSet == LowerSet \cup UpperSet \cup DigitSet \cup {".", "_", "/", " ", "-"}
IsAllowed(c) == c \in AllowedSet

\* String.prototype.toLowerCase on the upper-case letters
LowerOf ==
    [c \in UpperSet |->
        CharAt(LowerLetters,
               CHOOSE j \in 1..Len(UpperLetters) : CharAt(UpperLetters, j) = c)]

\* one character of String.prototype.toLowerCase
LowerChar(c) == IF c \in UpperSet THEN LowerOf[c] ELSE c

RECURSIVE toLowerCase(_)
toLowerCase(s) ==
    IF s = "" THEN "" ELSE LowerChar(Head(s)) \o toLowerCase(Tail(s))

RECURSIVE TrimStart(_)
TrimStart(s) ==
    IF s # "" /\ IsSpace(Head(s)) THEN TrimStart(Tail(s)) ELSE s

RECURSIVE TrimEnd(_)
TrimEnd(s) ==
    IF s # "" /\ IsSpace(CharAt(s, Len(s)))
    THEN TrimEnd(SubSeq(s, 1, Len(s) - 1))
    ELSE s

\* String.prototype.trim
trim(s) == TrimEnd(TrimStart(s))

\* String.prototype.startsWith
startsWith(s, p) == Len(p) <= Len(s) /\ SubSeq(s, 1, Len(p)) = p

\* String.prototype.endsWith
endsWith(s, p) ==
    Len(p) <= Len(s) /\ SubSeq(s, Len(s) - Len(p) + 1, Len(s)) = p

\* String.prototype.indexOf, 1-based; 0 when pat does not occur
IndexOf(s, pat) ==
    LET hits == {i \in 1..(Len(s) - Len(pat) + 1) :
                    SubSeq(s, i, i + Len(pat) - 1) = pat}
    IN  IF hits = {} THEN 0 ELSE CHOOSE i \in hits : \A j \in hits : i <= j

\* String.prototype.replace with a string pattern: the FIRST occurrence only
\* (the replacements used here never hold a "$")
replaceFirst(s, pat, rep) ==
    LET i == IndexOf(s, pat)
    IN  IF i = 0 THEN s
        ELSE SubSeq(s, 1, i - 1) \o rep \o SubSeq(s, i + Len(pat), Len(s))

\* .replace(/&/g, "and")
RECURSIVE ReplaceAmp(_)
ReplaceAmp(s) ==
    IF s = "" THEN ""
    ELSE (IF Head(s) = "&" THEN "and" ELSE Head(s)) \o ReplaceAmp(Tail(s))

\* .replace(/[^a-zA-Z0-9._/ -]/g, "")
RECURSIVE StripDisallowed(_)
StripDisallowed(s) ==
    IF s = "" THEN ""
    ELSE (IF IsAllowed(Head(s)) THEN Head(s) ELSE "") \o StripDisallowed(Tail(s))

\* .replace(/\s+/g, "-")
RECURSIVE SpacesToHyphen(_)
SpacesToHyphen(s) ==
    IF s = "" THEN ""
    ELSE IF IsSpace(Head(s))
         THEN "-" \o SpacesToHyphen(TrimStart(s))
         ELSE Head(s) \o SpacesToHyphen(Tail(s))

RECURSIVE DropHyphens(_)
DropHyphens(s) ==
    IF s # "" /\ Head(s) = "-" THEN DropHyphens(Tail(s)) ELSE s

\* .replace(/-+/g, "-")
RECURSIVE CollapseHyphens(_)
CollapseHyphens(s) ==
    IF s = "" THEN ""
    ELSE IF Head(s) = "-"
         THEN "-" \o CollapseHyphens(DropHyphens(s))
         ELSE Head(s) \o CollapseHyphens(Tail(s))

\* toKebab without the .replace(/-+/g, "-") step
toKebabNoCollapse(s) ==
    toLowerCase(SpacesToHyphen(StripDisallowed(ReplaceAmp(trim(s)))))

toKebab(s) ==
    toLowerCase(CollapseHyphens(SpacesToHyphen(StripDisallowed(ReplaceAmp(trim(s))))))

(***************************************************************************)
(* node:path (POSIX)                                                       *)
(***************************************************************************)
RECURSIVE StripTrailingSlashes(_)
StripTrailingSlashes(p) ==
    IF p # "" /\ CharAt(p, Len(p)) = "/"
    THEN StripTrailingSlashes(SubSeq(p, 1, Len(p) - 1))
    ELSE p

\* position of the last "/" of p, 0 when there is none
LastSlash(p) ==
    LET hits == {i \in 1..Len(p) : CharAt(p, i) = "/"}
    IN  IF hits = {} THEN 0 ELSE CHOOSE i \in hits : \A j \in hits : j <= i

\* path.basename(p)
basename(p) ==
    LET q == StripTrailingSlashes(p)
    IN  SubSeq(q, LastSlash(q) + 1, Len(q))

\* path.dirname(p)
dirname(p) ==
    LET q == StripTrailingSlashes(p)
        k == LastSlash(q)
    IN  IF p = "" THEN "."
        ELSE IF q = "" THEN "/"
        ELSE IF k = 0 THEN "."
        ELSE IF StripTrailingSlashes(SubSeq(q, 1, k)) = "" THEN "/"
        ELSE SubSeq(q, 1, k - 1)

(***************************************************************************)
(* Configuration of registry-lint.mjs                                      *)
(***************************************************************************)
AliasKeys ==
    {"engineering", "analysis", "quality", "communication", "business",
     "specialized"}

\* aliasMap[k] for k \in AliasKeys
aliasMap(k) ==
    CASE k = "engineering" -> "01-core-development"
      [] k = "analysis" -> "10-research-analysis"
      [] k = "quality" -> "04-quality-security"
      [] k = "communication" -> "08-business-product"
      [] k = "business" -> "08-business-product"
      [] k = "specialized" -> "07-specialized-domains"

rootCategoryKey == "superclaude-root"
ROOT_DIR_DEFAULT == "superclaude-root"
DefaultCategory == "01-core-development"

\* a document's `categories` map is a function from its keys to folder names
declaredKeys(categories) == DOMAIN categories

\* categoryMapDeclared[catKey] || catKey
getCatDir(categories, catKey) ==
    IF catKey \in DOMAIN categories /\ categories[catKey] # ""
    THEN categories[catKey]
    ELSE catKey

\* the prefix test made against the category key instead of its folder
ensurePrefixedByKey(categories, filePath, categoryKey) ==
    LET catDir == getCatDir(categories, categoryKey)
        base == basename(filePath)
    IN  IF startsWith(filePath, categoryKey \o "/") THEN filePath
        ELSE catDir \o "/" \o base

ensurePrefixedByCategory(categories, filePath, categoryKey) ==
    LET catDir == getCatDir(categories, categoryKey)
        base == basename(filePath)
    IN  IF startsWith(filePath, catDir \o "/") THEN filePath
        ELSE catDir \o "/" \o base

(***************************************************************************)
(* One iteration of the record loop, as values                             *)
(***************************************************************************)
\* let cat = String(out.category || "").trim(); if (aliasMap[cat]) cat = ...
AliasedCategory(agent) ==
    LET cat == trim(agent.category)
    IN  IF cat \in AliasKeys THEN aliasMap(cat) ELSE cat

\* cat && !declaredKeys.has(cat) && cat !== rootCategoryKey
UnknownCategory(categories, agent) ==
    LET cat == AliasedCategory(agent)
    IN  cat # "" /\ cat \notin declaredKeys(categories) /\ cat # rootCategoryKey

\* the value assigned to out.category
ResolvedCategory(categories, agent) ==
    LET cat0 == AliasedCategory(agent)
        cat == IF UnknownCategory(categories, agent)
               THEN (IF agent.category \in AliasKeys
                     THEN aliasMap(agent.category)
                     ELSE DefaultCategory)
               ELSE cat0
    IN  IF cat = "" THEN DefaultCategory ELSE cat

\* a test that never finds the path missing
MissingSourceFileNever(agent) == FALSE

\* !src, for src = String(out.source_file || "").trim()
MissingSourceFile(agent) == trim(agent.source_file) = ""

\* src after the synthesis step
DeclaredPath(agent) ==
    IF MissingSourceFile(agent)
    THEN toKebab(agent.name) \o ".md"
    ELSE trim(agent.source_file)

\* norm, the value assigned to out.source_file
CanonicalPath(categories, agent) ==
    LET src == DeclaredPath(agent)
        cat == ResolvedCategory(categories, agent)
        normBase == toKebab(basename(src))
        norm == replaceFirst(src, basename(src), normBase)
    IN  IF cat = rootCategoryKey
        THEN (IF startsWith(norm, ROOT_DIR_DEFAULT \o "/") THEN norm
              ELSE ROOT_DIR_DEFAULT \o "/" \o normBase)
        ELSE ensurePrefixedByCategory(categories, norm, cat)

DescriptionLimit == 160

\* a test that warns from the limit on
LongDescriptionAtLimit(agent) == Len(agent.description) >= DescriptionLimit

\* out.description && out.description.length > 160
LongDescription(agent) == Len(agent.description) > DescriptionLimit

\* a copy that leaves the description behind
NormalizedAgentNoDescription(categories, agent) ==
    [agent EXCEPT !.category = ResolvedCategory(categories, agent),
                  !.source_file = CanonicalPath(categories, agent),
                  !.description = ""]

\* the record pushed to kept
NormalizedAgent(categories, agent) ==
    [agent EXCEPT !.category = ResolvedCategory(categories, agent),
                  !.source_file = CanonicalPath(categories, agent)]

\* the entries the iteration appends to problems, in order
AgentProblems(categories, agent) ==
    (IF UnknownCategory(categories, agent)
     THEN <<[level |-> "warn", msg |-> "Unknown category", name |-> agent.name]>>
     ELSE <<>>)
    \o (IF MissingSourceFile(agent)
        THEN <<[level |-> "warn", msg |-> "Missing source_file", name |-> agent.name]>>
        ELSE <<>>)
    \o (IF LongDescription(agent)
        THEN <<[level |-> "warn", msg |-> "Description >160 chars", name |-> agent.name]>>
        ELSE <<>>)

\* a planner that queues a move for every accepted record
AgentMovesAlways(categories, agent) ==
    <<[from |-> DeclaredPath(agent),
       to |-> CanonicalPath(categories, agent),
       name |-> agent.name]>>

\* the entries the iteration appends to moves
AgentMoves(categories, agent) ==
    IF CanonicalPath(categories, agent) # DeclaredPath(agent)
    THEN <<[from |-> DeclaredPath(agent),
            to |-> CanonicalPath(categories, agent),
            name |-> agent.name]>>
    ELSE <<>>

(***************************************************************************)
(* The file tree: regular files (path -> content) and directories          *)
(***************************************************************************)
\* d and every ancestor of d, for a relative directory path d
DirChain(d) ==
    IF d = "." \/ d = "" THEN {}
    ELSE {SubSeq(d, 1, i - 1) : i \in {j \in 1..Len(d) : CharAt(d, j) = "/"}}
         \cup {d}

\* the directories that hold the files of f
ParentDirs(f) == UNION {DirChain(dirname(p)) : p \in DOMAIN f}

\* fs.existsSync(p)
existsSync(f, d, p) ==
    p # "" /\ (p \in DOMAIN f \/ StripTrailingSlashes(p) \in d \/ p = ".")

\* fs.mkdirSync(dir, {recursive: true}) throws: a component is a regular file
MkdirBlocked(f, dir) == \E q \in DirChain(dir) : q \in DOMAIN f

\* the directories after a successful fs.mkdirSync(dir, {recursive: true})
mkdirSync(d, dir) == d \cup DirChain(dir)

IsUnder(p, dir) == startsWith(p, dir \o "/")

\* fs.renameSync(from, to) throws (rename(2): ENOENT, EISDIR, ENOTDIR,
\* ENOTEMPTY, EINVAL)
RenameBlocked(f, d, from, to) ==
    LET src == StripTrailingSlashes(from)
        dst == StripTrailingSlashes(to)
    IN  \/ ~existsSync(f, d, from)
        \/ ~(dirname(to) = "." \/ dirname(to) \in d)
        \/ /\ from \in DOMAIN f
           /\ from # to
           /\ (dst \in d \/ dst # to)
        \/ /\ from \notin DOMAIN f
           /\ src # dst
           /\ \/ dst \in DOMAIN f
              \/ \E q \in DOMAIN f : IsUnder(q, dst)
              \/ \E q \in d : IsUnder(q, dst)
              \/ IsUnder(dst, src)

\* p after directory src has become dst
Rebase(p, src, dst) ==
    IF p = src THEN dst
    ELSE IF IsUnder(p, src) THEN dst \o SubSeq(p, Len(src) + 1, Len(p))
    ELSE p

\* the regular files after a successful fs.renameSync(from, to): a file at `to`
\* is replaced
renameFiles(f, from, to) ==
    IF from = to THEN f
    ELSE IF from \in DOMAIN f
    THEN [p \in (DOMAIN f \ {from}) \cup {to} |->
             IF p = to THEN f[from] ELSE f[p]]
    ELSE LET src == StripTrailingSlashes(from)
             dst == StripTrailingSlashes(to)
             back == [q \in {Rebase(p, src, dst) : p \in DOMAIN f} |->
                         CHOOSE p \in DOMAIN f : Rebase(p, src, dst) = q]
         IN  [q \in DOMAIN back |-> f[back[q]]]

\* the directories after a successful fs.renameSync(from, to)
renameDirs(f, d, from, to) ==
    IF from = to \/ from \in DOMAIN f THEN d
    ELSE {Rebase(q, StripTrailingSlashes(from), StripTrailingSlashes(to)) : q \in d}

(***************************************************************************)
(* State                                                                   *)
(***************************************************************************)
VARIABLES
    pc,         \* position of the running tool
    run,        \* number of the current run of the lint tool
    args,       \* process.argv.slice(2), as a set
    regFile,    \* the registry document on disk (ymlPath)
    bakFile,    \* ymlPath + ".bak"
    files,      \* the tree's regular files: path -> content
    dirs,       \* the tree's directories
    yamlAvail,  \* whether import('yaml') resolves: "unknown", "yes", "no"
    raw,        \* the document as read at the start of the run
    data,       \* the parsed document
    idx,        \* position of the record loop in data.agents
    problems, moves, kept, removed, seenNames,
    mi,         \* position of the apply-moves loop in moves
    exitCode,   \* -1 while running, then the process's exit status
    log,        \* console lines of the move loops
    regFile0, bakFile0, files0, dirs0,  \* disk state when the run started
    want, index, ri, moved, missing, skipped   \* rescue-move-by-basename.mjs

lintVars ==
    <<run, args, regFile, bakFile, yamlAvail, raw, data, idx, problems, moves,
      kept, removed, seenNames, mi, exitCode, regFile0, bakFile0, files0, dirs0>>
rescueVars == <<want, index, ri, moved, missing, skipped>>
vars == <<pc, files, dirs, log, lintVars, rescueVars>>

FIX == "--fix" \in args
APPLY_MOVES == "--apply-moves" \in args

(***************************************************************************)
(* Inputs                                                                  *)
(***************************************************************************)
MaxAgents == 2
MaxRuns == 2

Agent(n, c, s, d) ==
    [name |-> n, category |-> c, source_file |-> s, description |-> d]

CoreTable == [k \in {"01-core-development"} |-> "01-core-development"]

\* records of the registries the tool is run on
LintAgents ==
    { Agent("x", "engineering", "a.md", "lead"),
      Agent("y", "engineering", "old/a.md", ""),
      Agent("y", "01-core-development", "01-core-development/a.md", ""),
      Agent("x", "engineering", "Ab/Ab", ""),
      Agent("", "bogus", "", "") }

SeqsUpTo(S, n) == UNION {[1..k -> S] : k \in 0..n}

EmptyDoc == [version |-> "", categories |-> <<>>, agents |-> <<>>]
NoFile == [fmt |-> "none", doc |-> EmptyDoc]

LintDocs ==
    {[version |-> "1", categories |-> CoreTable, agents |-> a] :
        a \in SeqsUpTo(LintAgents, MaxAgents)}

\* the registry on disk: JSON text ("some folks export JSON with .yml"), YAML
\* text, or text no decoder accepts
LintRegFiles ==
    {[fmt |-> f, doc |-> d] : f \in {"json", "yaml"}, d \in LintDocs}
    \cup {[fmt |-> "bad", doc |-> EmptyDoc]}

\* a tree of files, each holding content named after its first location
Tree(S) == [p \in S |-> p]

\* "01-core-development" is a regular file where the tool wants a folder
TreePaths ==
    {"a.md", "old/a.md", "01-core-development/a.md", "Ab/Ab",
     "01-core-development"}

\* no regular file of S is also a directory of S
ConsistentTree(S) == \A p \in S, q \in S : ~IsUnder(q, p)

LintTrees == {Tree(S) : S \in {T \in SUBSET TreePaths : ConsistentTree(T)}}

ArgLists == SUBSET {"--fix", "--apply-moves", "registry.yml"}

\* what the operating system does to the next mkdir and rename
IoOutcomes == {"ok", "mkdir-fails", "rename-fails"}

(***************************************************************************)
(* registry-lint.mjs                                                       *)
(***************************************************************************)
RunReset ==
    /\ raw = NoFile
    /\ data = EmptyDoc
    /\ idx = 1
    /\ problems = <<>>
    /\ moves = <<>>
    /\ kept = <<>>
    /\ removed = <<>>
    /\ seenNames = {}
    /\ mi = 1
    /\ exitCode = -1

RescueIdle ==
    /\ want = <<>>
    /\ index = <<>>
    /\ ri = 1
    /\ moved = 0
    /\ missing = 0
    /\ skipped = 0

Init ==
    /\ pc = "start"
    /\ run = 1
    /\ args = {}
    /\ regFile \in LintRegFiles
    /\ bakFile = NoFile
    /\ files \in LintTrees
    /\ dirs = ParentDirs(files)
    /\ yamlAvail = "unknown"
    /\ log = <<>>
    /\ RunReset
    /\ regFile0 = regFile
    /\ bakFile0 = bakFile
    /\ files0 = files
    /\ dirs0 = dirs
    /\ RescueIdle

Exit(code) ==
    /\ pc' = "done"
    /\ exitCode' = code

\* lines 19-30
ParseArgs ==
    /\ pc = "start"
    /\ \E a \in ArgLists :
        /\ args' = a
        /\ IF a = {} \/ ~(\E w \in a : ~startsWith(w, "--"))
           THEN Exit(1)
           ELSE pc' = "load" /\ UNCHANGED exitCode
    /\ UNCHANGED <<run, regFile, bakFile, files, dirs, yamlAvail, raw, data,
                   idx, problems, moves, kept, removed, seenNames, mi, log,
                   regFile0, bakFile0, files0, dirs0, rescueVars>>

\* JSON.parse(raw) succeeds
JsonParses(text) == text.fmt = "json"
\* yaml.parse(raw) succeeds (JSON text is YAML too)
YamlParses(text) == text.fmt \in {"json", "yaml"}

\* lines 32-57
Load ==
    /\ pc = "load"
    /\ raw' = regFile
    /\ \E avail \in {"yes", "no"} :
        /\ yamlAvail \in {"unknown", avail}
        /\ IF JsonParses(regFile)
           THEN /\ data' = regFile.doc
                /\ pc' = "process"
                /\ UNCHANGED <<yamlAvail, exitCode>>
           ELSE /\ yamlAvail' = avail
                /\ IF avail = "yes" /\ YamlParses(regFile)
                   THEN data' = regFile.doc /\ pc' = "process"
                                            /\ UNCHANGED exitCode
                   ELSE UNCHANGED data /\ Exit(1)
    /\ UNCHANGED <<run, args, regFile, bakFile, files, dirs, idx, problems,
                   moves, kept, removed, seenNames, mi, log, regFile0,
                   bakFile0, files0, dirs0, rescueVars>>

agents == data.agents

\* a test that also turns away a record without a category
NoNameOrCategory(agent) == agent.name = "" \/ trim(agent.category) = ""

\* !out.name
NoName(agent) == agent.name = ""

\* seenNames.has(out.name) that forgets what it has seen
IsDuplicateNever(seen, agent) == FALSE

\* seenNames.has(out.name)
IsDuplicate(seen, agent) == agent.name \in seen

\* lines 107-167, one iteration
ProcessAgent ==
    /\ pc = "process"
    /\ idx <= Len(agents)
    /\ LET agent == agents[idx]
           cats == data.categories
       IN  IF NoName(agent)
           THEN /\ problems' = Append(problems,
                     [level |-> "error", msg |-> "Agent without name",
                      name |-> agent.name])
                /\ UNCHANGED <<removed, seenNames, moves, kept>>
           ELSE IF IsDuplicate(seenNames, agent)
           THEN /\ removed' = Append(removed,
                     [reason |-> "duplicate-name", agent |-> agent])
                /\ UNCHANGED <<problems, seenNames, moves, kept>>
           ELSE /\ seenNames' = seenNames \cup {agent.name}
                /\ problems' = problems \o AgentProblems(cats, agent)
                /\ moves' = moves \o AgentMoves(cats, agent)
                /\ kept' = Append(kept, NormalizedAgent(cats, agent))
                /\ UNCHANGED removed
    /\ idx' = idx + 1
    /\ UNCHANGED <<pc, run, args, regFile, bakFile, files, dirs, yamlAvail,
                   raw, data, mi, exitCode, log, regFile0, bakFile0, files0,
                   dirs0, rescueVars>>

\* line 170
result == [data EXCEPT !.agents = kept]

\* if (FIX || APPLY_MOVES)
WritesRequestedByAnyFlag == FIX \/ APPLY_MOVES

\* line 206: if (FIX)
WritesRequested == FIX

\* lines 172-206: the report, then the way into the write block
PrintReport ==
    /\ pc = "process"
    /\ idx > Len(agents)
    /\ IF WritesRequested
       THEN pc' = "backup" /\ UNCHANGED exitCode
       ELSE Exit(0)
    /\ UNCHANGED <<run, args, regFile, bakFile, files, dirs, yamlAvail, raw,
                   data, idx, problems, moves, kept, removed, seenNames, mi,
                   log, regFile0, bakFile0, files0, dirs0, rescueVars>>

\* fs.writeFileSync(bak, fixed, "utf8"): the backup taken of the rewritten text
BackupOfFixed == [fmt |-> "yaml", doc |-> [data EXCEPT !.agents = kept]]

\* line 209: the text written to bak
BackupContent == raw

\* lines 208-209
Backup ==
    /\ pc = "backup"
    /\ bakFile' = BackupContent
    /\ pc' = "import"
    /\ UNCHANGED <<run, args, regFile, files, dirs, yamlAvail, raw, data, idx,
                   problems, moves, kept, removed, seenNames, mi, exitCode,
                   log, regFile0, bakFile0, files0, dirs0, rescueVars>>

\* lines 212-218
ImportYaml ==
    /\ pc = "import"
    /\ \E avail \in {"yes", "no"} :
        /\ yamlAvail \in {"unknown", avail}
        /\ yamlAvail' = avail
        /\ IF avail = "yes"
           THEN pc' = "write" /\ UNCHANGED exitCode
           ELSE Exit(1)
    /\ UNCHANGED <<run, args, regFile, bakFile, files, dirs, raw, data, idx,
                   problems, moves, kept, removed, seenNames, mi, log,
                   regFile0, bakFile0, files0, dirs0, rescueVars>>

\* lines 219-223 and 247-253
WriteFixed ==
    /\ pc = "write"
    /\ regFile' = [fmt |-> "yaml", doc |-> result]
    /\ IF APPLY_MOVES /\ moves # <<>>
       THEN pc' = "apply" /\ UNCHANGED exitCode
       ELSE Exit(0)
    /\ UNCHANGED <<run, args, bakFile, files, dirs, yamlAvail, raw, data, idx,
                   problems, moves, kept, removed, seenNames, mi, log,
                   regFile0, bakFile0, files0, dirs0, rescueVars>>

\* a choice that looks under the process root first
MoveSourceRootFirst(f, d, from) ==
    IF existsSync(f, d, basename(from)) THEN basename(from)
    ELSE IF existsSync(f, d, from) THEN from
    ELSE ""

\* the file the move loop renames for a move from `from`: lines 229-241
MoveSource(f, d, from) ==
    IF existsSync(f, d, from) THEN from
    ELSE IF existsSync(f, d, basename(from)) THEN basename(from)
    ELSE ""

\* lines 224-245, one iteration
ApplyMove ==
    /\ pc = "apply"
    /\ mi <= Len(moves)
    /\ \E io \in IoOutcomes :
        LET from == moves[mi].from
            to == moves[mi].to
            toDir == dirname(to)
            dirs1 == mkdirSync(dirs, toDir)
            source == MoveSource(files, dirs1, from)
        IN  IF io = "mkdir-fails" \/ MkdirBlocked(files, toDir)
            THEN \* mkdirSync throws outside the try block
                 /\ Exit(1)
                 /\ log' = Append(log, [op |-> "uncaught", from |-> from, to |-> to])
                 /\ UNCHANGED <<files, dirs, mi>>
            ELSE /\ mi' = mi + 1
                 /\ UNCHANGED <<pc, exitCode>>
                 /\ IF source = ""
                    THEN /\ log' = Append(log, [op |-> "skip", from |-> from, to |-> to])
                         /\ dirs' = dirs1
                         /\ UNCHANGED files
                    ELSE IF io = "rename-fails"
                            \/ RenameBlocked(files, dirs1, source, to)
                    THEN /\ log' = Append(log, [op |-> "warn", from |-> from, to |-> to])
                         /\ dirs' = dirs1
                         /\ UNCHANGED files
                    ELSE /\ log' = Append(log, [op |-> "mv", from |-> source, to |-> to])
                         /\ files' = renameFiles(files, source, to)
                         /\ dirs' = renameDirs(files, dirs1, source, to)
    /\ UNCHANGED <<run, args, regFile, bakFile, yamlAvail, raw, data, idx,
                   problems, moves, kept, removed, seenNames, regFile0,
                   bakFile0, files0, dirs0, rescueVars>>

\* line 246
ApplyDone ==
    /\ pc = "apply"
    /\ mi > Len(moves)
    /\ Exit(0)
    /\ UNCHANGED <<run, args, regFile, bakFile, files, dirs, yamlAvail, raw,
                   data, idx, problems, moves, kept, removed, seenNames, mi,
                   log, regFile0, bakFile0, files0, dirs0, rescueVars>>

\* the same command line is run again on what the last run left (a run
\* without --fix leaves what it found)
Rerun ==
    /\ pc = "done"
    /\ exitCode = 0
    /\ FIX
    /\ run < MaxRuns
    /\ run' = run + 1
    /\ pc' = "load"
    /\ raw' = NoFile
    /\ data' = EmptyDoc
    /\ idx' = 1
    /\ problems' = <<>>
    /\ moves' = <<>>
    /\ kept' = <<>>
    /\ removed' = <<>>
    /\ seenNames' = {}
    /\ mi' = 1
    /\ exitCode' = -1
    /\ log' = <<>>
    /\ regFile0' = regFile
    /\ bakFile0' = bakFile
    /\ files0' = files
    /\ dirs0' = dirs
    /\ UNCHANGED <<args, regFile, bakFile, files, dirs, yamlAvail, rescueVars>>

Next ==
    \/ ParseArgs
    \/ Load
    \/ ProcessAgent
    \/ PrintReport
    \/ Backup
    \/ ImportYaml
    \/ WriteFixed
    \/ ApplyMove
    \/ ApplyDone
    \/ Rerun

Spec == Init /\ [][Next]_vars

(***************************************************************************)
(* The record loop alone, over every combination of name, category and     *)
(* declared path: the state after Load of a report-only run                *)
(***************************************************************************)
NormNames == {"", "x", "X y"}
NormCategories ==
    {"", "engineering", "analysis", "01-core-development", "superclaude-root",
     "bogus"}
NormSourceFiles ==
    {"", "a.md", "My File.md", "Ab/Ab", "01-core-development/A.md",
     "superclaude-root/sub/a.md"}
NormTables == {<<>>, [k \in {"01-core-development"} |-> "agents/core"]}

NormAgents ==
    {Agent(n, c, s, "") :
        n \in NormNames, c \in NormCategories, s \in NormSourceFiles}

\* registries of one record and of two
NormRegistries ==
    {<<a>> : a \in NormAgents} \cup {<<a, b>> : a \in NormAgents, b \in NormAgents}

NormInit ==
    /\ pc = "process"
    /\ run = 1
    /\ args = {"registry.yml"}
    /\ \E t \in NormTables, a \in NormRegistries :
          regFile = [fmt |-> "json",
                     doc |-> [version |-> "1", categories |-> t, agents |-> a]]
    /\ bakFile = NoFile
    /\ files = Tree({})
    /\ dirs = {}
    /\ yamlAvail = "unknown"
    /\ log = <<>>
    /\ raw = regFile
    /\ data = regFile.doc
    /\ idx = 1
    /\ problems = <<>>
    /\ moves = <<>>
    /\ kept = <<>>
    /\ removed = <<>>
    /\ seenNames = {}
    /\ mi = 1
    /\ exitCode = -1
    /\ regFile0 = regFile
    /\ bakFile0 = bakFile
    /\ files0 = files
    /\ dirs0 = dirs
    /\ RescueIdle

NormNext == ProcessAgent \/ PrintReport

NormSpec == NormInit /\ [][NormNext]_vars

(***************************************************************************)
(* toKebab on every short string: the record loop run on one record whose  *)
(* name is the string and whose path is empty, so that line 136 applies    *)
(* toKebab to the name and line 142 applies it again to the result         *)
(***************************************************************************)
MaxLen == 3

\* letters of both cases, a digit, white space, the characters toKebab
\* rewrites or keeps, and one it strips
KebabAlphabet == {"a", "B", "7", " ", "\t", "-", "&", "!", ".", "_", "/"}

RECURSIVE StringsOfLen(_)
StringsOfLen(n) ==
    IF n = 0 THEN {""}
    ELSE {c \o s : c \in KebabAlphabet, s \in StringsOfLen(n - 1)}

KebabStrings == UNION {StringsOfLen(n) : n \in 0..MaxLen}

KebabInit ==
    /\ pc = "process"
    /\ run = 1
    /\ args = {"registry.yml"}
    /\ \E s \in KebabStrings :
          regFile = [fmt |-> "json",
                     doc |-> [version |-> "1", categories |-> <<>>,
                              agents |-> <<Agent(s, "", "", "")>>]]
    /\ bakFile = NoFile
    /\ files = Tree({})
    /\ dirs = {}
    /\ yamlAvail = "unknown"
    /\ log = <<>>
    /\ raw = regFile
    /\ data = regFile.doc
    /\ idx = 1
    /\ problems = <<>>
    /\ moves = <<>>
    /\ kept = <<>>
    /\ removed = <<>>
    /\ seenNames = {}
    /\ mi = 1
    /\ exitCode = -1
    /\ regFile0 = regFile
    /\ bakFile0 = bakFile
    /\ files0 = files
    /\ dirs0 = dirs
    /\ RescueIdle

KebabNext == ProcessAgent \/ PrintReport

KebabSpec == KebabInit /\ [][KebabNext]_vars

(***************************************************************************)
(* The record loop on descriptions around the limit of line 162            *)
(***************************************************************************)
RECURSIVE Repeat(_, _)
Repeat(c, n) ==
    IF n = 0 THEN ""
    ELSE LET half == Repeat(c, n \div 2)
         IN  half \o half \o (IF n % 2 = 1 THEN c ELSE "")

\* no description, a short one, one of exactly the limit and one a character
\* longer
DescDescriptions ==
    {"", "lead", Repeat("d", DescriptionLimit), Repeat("d", DescriptionLimit + 1)}

DescAgents ==
    {Agent(n, "engineering", s, d) :
        n \in {"", "x", "y"}, s \in {"", "a.md"}, d \in DescDescriptions}

DescRegistries ==
    {<<a>> : a \in DescAgents} \cup {<<a, b>> : a \in DescAgents, b \in DescAgents}

DescInit ==
    /\ pc = "process"
    /\ run = 1
    /\ args = {"registry.yml"}
    /\ \E a \in DescRegistries :
          regFile = [fmt |-> "json",
                     doc |-> [version |-> "1", categories |-> CoreTable,
                              agents |-> a]]
    /\ bakFile = NoFile
    /\ files = Tree({})
    /\ dirs = {}
    /\ yamlAvail = "unknown"
    /\ log = <<>>
    /\ raw = regFile
    /\ data = regFile.doc
    /\ idx = 1
    /\ problems = <<>>
    /\ moves = <<>>
    /\ kept = <<>>
    /\ removed = <<>>
    /\ seenNames = {}
    /\ mi = 1
    /\ exitCode = -1
    /\ regFile0 = regFile
    /\ bakFile0 = bakFile
    /\ files0 = files
    /\ dirs0 = dirs
    /\ RescueIdle

DescNext == ProcessAgent \/ PrintReport

DescSpec == DescInit /\ [][DescNext]_vars

(***************************************************************************)
(* rescue-move-by-basename.mjs                                             *)
(***************************************************************************)
RescueTargets == {"", "a/x.md", "b/x.md", "q/y.md", "q/notes.txt"}
RescueTreePaths == {"a/x.md", "b/x.md", "c/X.md", "notes.txt"}

RescueDocs ==
    {[version |-> "1", categories |-> CoreTable, agents |-> a] :
        a \in SeqsUpTo({Agent("r-" \o t, "01-core-development", t, "") :
                           t \in RescueTargets}, MaxAgents)}

RescueInit ==
    /\ pc = "rescue-start"
    /\ run = 1
    /\ args = {"registry.yml"}
    /\ regFile \in {[fmt |-> "yaml", doc |-> d] : d \in RescueDocs}
    /\ bakFile = NoFile
    /\ files \in {Tree(S) : S \in SUBSET RescueTreePaths}
    /\ dirs = ParentDirs(files)
    /\ yamlAvail = "yes"
    /\ log = <<>>
    /\ RunReset
    /\ regFile0 = regFile
    /\ bakFile0 = bakFile
    /\ files0 = files
    /\ dirs0 = dirs
    /\ RescueIdle

\* (doc.agents || []).map(a => a.source_file).filter(Boolean)
RECURSIVE WantOf(_)
WantOf(as) ==
    IF as = <<>> THEN <<>>
    ELSE (IF Head(as).source_file # "" THEN <<Head(as).source_file>> ELSE <<>>)
         \o WantOf(Tail(as))

\* walk(root).filter(p => p.endsWith(".md"))
all(f) == {p \in DOMAIN f : endsWith(p, ".md")}

\* index: lower-cased basename -> the paths of `all` that have it
IndexOfTree(f) ==
    [b \in {toLowerCase(basename(p)) : p \in all(f)} |->
        {p \in all(f) : toLowerCase(basename(p)) = b}]

\* lines 62-73
RescueLoad ==
    /\ pc = "rescue-start"
    /\ want' = WantOf(regFile.doc.agents)
    /\ index' = IndexOfTree(files)
    /\ ri' = 1
    /\ moved' = 0
    /\ missing' = 0
    /\ skipped' = 0
    /\ pc' = "rescue"
    /\ UNCHANGED <<files, dirs, log, lintVars>>

\* a lookup that finds nothing
CandidatesNone(ix, base) == {}

\* a lookup that falls back on every indexed file when the key is absent
CandidatesGuess(ix, base) ==
    IF base \in DOMAIN ix THEN ix[base] ELSE UNION {ix[b] : b \in DOMAIN ix}

\* index.get(base) || []
Candidates(ix, base) == IF base \in DOMAIN ix THEN ix[base] ELSE {}

\* a test that never finds the target in place
TargetPresentNever(f, d, to) == FALSE

\* line 76: fs.existsSync(to)
TargetPresent(f, d, to) == existsSync(f, d, to)

\* lines 74-95, one iteration
RescueStep ==
    /\ pc = "rescue"
    /\ ri <= Len(want)
    /\ \E io \in IoOutcomes :
        LET to == want[ri]
            base == toLowerCase(basename(to))
            candidates == Candidates(index, base)
            from == CHOOSE c \in candidates : TRUE
            dirs1 == mkdirSync(dirs, dirname(to))
        IN  IF TargetPresent(files, dirs, to)
            THEN /\ skipped' = skipped + 1
                 /\ ri' = ri + 1
                 /\ UNCHANGED <<pc, exitCode, files, dirs, log, moved, missing>>
            ELSE IF Cardinality(candidates) = 1
            THEN IF io = "mkdir-fails" \/ MkdirBlocked(files, dirname(to))
                 THEN \* mkdirSync throws outside the try block
                      /\ Exit(1)
                      /\ log' = Append(log, [op |-> "uncaught", from |-> from, to |-> to])
                      /\ UNCHANGED <<files, dirs, ri, moved, missing, skipped>>
                 ELSE IF io = "rename-fails"
                         \/ RenameBlocked(files, dirs1, from, to)
                 THEN /\ log' = Append(log, [op |-> "warn", from |-> from, to |-> to])
                      /\ dirs' = dirs1
                      /\ ri' = ri + 1
                      /\ UNCHANGED <<pc, exitCode, files, moved, missing, skipped>>
                 ELSE /\ log' = Append(log, [op |-> "mv", from |-> from, to |-> to])
                      /\ files' = renameFiles(files, from, to)
                      /\ dirs' = renameDirs(files, dirs1, from, to)
                      /\ moved' = moved + 1
                      /\ ri' = ri + 1
                      /\ UNCHANGED <<pc, exitCode, missing, skipped>>
            ELSE IF Cardinality(candidates) > 1
            THEN /\ log' = Append(log, [op |-> "ambiguous", from |-> candidates, to |-> to])
                 /\ ri' = ri + 1
                 /\ UNCHANGED <<pc, exitCode, files, dirs, moved, missing, skipped>>
            ELSE /\ log' = Append(log, [op |-> "missing", from |-> "", to |-> to])
                 /\ missing' = missing + 1
                 /\ ri' = ri + 1
                 /\ UNCHANGED <<pc, exitCode, files, dirs, moved, skipped>>
    /\ UNCHANGED <<run, args, regFile, bakFile, yamlAvail, raw, data, idx,
                   problems, moves, kept, removed, seenNames, mi, regFile0,
                   bakFile0, files0, dirs0, want, index>>

\* line 73: the counters the pass keeps, by name
RescueCounters == [moved |-> moved, missing |-> missing, skipped |-> skipped]

\* line 97
RescueDone ==
    /\ pc = "rescue"
    /\ ri > Len(want)
    /\ Exit(0)
    /\ UNCHANGED <<run, args, regFile, bakFile, files, dirs, yamlAvail, raw,
                   data, idx, problems, moves, kept, removed, seenNames, mi,
                   log, regFile0, bakFile0, files0, dirs0, rescueVars>>

RescueNext == RescueLoad \/ RescueStep \/ RescueDone

RescueSpec == RescueInit /\ [][RescueNext]_vars
(***************************************************************************)
(* Properties                                                              *)
(***************************************************************************)
DiskUnchanged ==
    /\ regFile = regFile0
    /\ bakFile = bakFile0
    /\ files = files0
    /\ dirs = dirs0

\* C1: in the apply-moves loop a move whose toPath exists when the move is
\* processed is skipped: the step leaves the whole tree, and so the file at
\* toPath, as it was.
C1_ExistingDestinationUntouched ==
    [][(pc = "apply" /\ mi <= Len(moves)
          /\ existsSync(files, dirs, moves[mi].to))
       => (files' = files /\ dirs' = dirs)]_vars

\* C2: a second --fix --apply-moves run, on the registry and the tree the
\* first one left, plans no move (and so performs no rename).
C2_SecondRunPlansNoMoves ==
    (run >= 2 /\ FIX /\ APPLY_MOVES) => moves = <<>>

\* C3: a step of the rescue loop never takes away or replaces the file at the
\* target path of any registry record: a target that holds a file before the
\* step holds the same file after it.
C3_RescueKeepsTargetsInPlace ==
    [][pc = "rescue"
       => \A i \in 1..Len(want) :
             want[i] \in DOMAIN files
             => (want[i] \in DOMAIN files' /\ files'[want[i]] = files[want[i]])]_vars

\* the records the loop has gone through
Processed == 1..(idx - 1)
\* first occurrences of a non-empty identity key, and later ones
IsFirst(i) ==
    agents[i].name # "" /\ \A j \in 1..(i - 1) : agents[j].name # agents[i].name
IsRepeat(i) ==
    agents[i].name # "" /\ \E j \in 1..(i - 1) : agents[j].name = agents[i].name
FirstIdx == {i \in Processed : IsFirst(i)}
RepeatIdx == {i \in Processed : IsRepeat(i)}
RankIn(S, i) == Cardinality({j \in S : j <= i})

\* C4: kept holds exactly one record per non-empty identity key of the input,
\* the first occurrence, in input order and with nothing of a later occurrence
\* merged in; every later occurrence is in removed, tagged as a duplicate.
C4_FirstOccurrenceKept ==
    /\ Len(kept) = Cardinality(FirstIdx)
    /\ \A i \in FirstIdx :
          LET out == kept[RankIn(FirstIdx, i)]
          IN  /\ out.name = agents[i].name
              /\ out.description = agents[i].description
              /\ out.source_file = CanonicalPath(data.categories, agents[i])
              /\ out.category = ResolvedCategory(data.categories, agents[i])
    /\ \A i \in Processed :
          agents[i].name # ""
          => Cardinality({k \in 1..Len(kept) : kept[k].name = agents[i].name}) = 1
    /\ Len(removed) = Cardinality(RepeatIdx)
    /\ \A i \in RepeatIdx :
          removed[RankIn(RepeatIdx, i)] =
              [reason |-> "duplicate-name", agent |-> agents[i]]

\* a finished run that dropped a later occurrence differing from the kept one
C4_Witness ==
    /\ pc = "done"
    /\ exitCode = 0
    /\ Len(kept) = 1
    /\ Len(removed) = 1
    /\ removed[1].agent.source_file # agents[1].source_file
    /\ removed[1].agent.description # kept[1].description

\* the directory a kept record's path has to be under
RequiredDir(out) ==
    IF out.category = rootCategoryKey THEN ROOT_DIR_DEFAULT
    ELSE getCatDir(data.categories, out.category)

\* C5: every accepted record's canonical path starts with the directory of
\* its resolved category and "/", or with the root directory and "/" when the
\* resolved category is the root category.
C5_PathUnderCategoryDir ==
    \A k \in 1..Len(kept) :
        startsWith(kept[k].source_file, RequiredDir(kept[k]) \o "/")

\* a finished run that kept a root-category record and a record of a declared
\* category whose folder differs from its key, and planned a move for each
C5_Witness ==
    /\ pc = "done"
    /\ Len(kept) = 2
    /\ Len(moves) = 2
    /\ kept[1].category = rootCategoryKey
    /\ kept[2].category \in declaredKeys(data.categories)
    /\ RequiredDir(kept[2]) # kept[2].category
    /\ agents[2].category \in AliasKeys

IsKebab(b) ==
    /\ toKebab(b) = b
    /\ \A i \in 1..Len(b) :
          /\ CharAt(b, i) \notin UpperSet
          /\ ~IsSpace(CharAt(b, i))
          /\ (i < Len(b) => SubSeq(b, i, i + 1) # "--")

\* C6: the basename of every accepted record's canonical path is in kebab
\* form: it is its own normalization and holds no upper-case letter, no white
\* space and no repeated hyphen.
C6_CanonicalBasenameIsKebab ==
    \A k \in 1..Len(kept) : IsKebab(basename(kept[k].source_file))

\* C7: the canonical paths of the accepted records are pairwise distinct.
C7_CanonicalPathsDistinct ==
    \A i, j \in 1..Len(kept) :
        i # j => kept[i].source_file # kept[j].source_file

\* C8: a run that exits with a non-zero status has changed nothing on disk,
\* and a run that exits with status 0 has gone through every record, has
\* written the document when asked to, and has attempted every planned move
\* when asked to.
C8_FailureExitLeavesDiskUntouched ==
    /\ (pc = "done" /\ exitCode # 0) => DiskUnchanged
    /\ (pc = "done" /\ exitCode = 0)
          => /\ idx > Len(agents)
             /\ FIX => regFile = [fmt |-> "yaml", doc |-> result]
             /\ (FIX /\ APPLY_MOVES) => mi > Len(moves)

\* C9: once the apply-moves loop has handled a move, the run ends only after
\* the loop has come to the last move of the list: no failure in handling one
\* move keeps a later move from being attempted.
C9_EveryMoveAttempted ==
    (pc = "done" /\ log # <<>>) => mi >= Len(moves)

\* C10: without --fix nothing is written: the registry document, the .bak
\* file and the tree's files and directories stay as they were, whatever the
\* other flags.
C10_NoFixNoWrites ==
    (pc # "start" /\ ~FIX) => DiskUnchanged

\* a finished run given --apply-moves without --fix, with a planned move whose
\* source file is there to be moved
C10_Witness ==
    /\ pc = "done"
    /\ exitCode = 0
    /\ ~FIX
    /\ APPLY_MOVES
    /\ moves # <<>>
    /\ existsSync(files, dirs, moves[1].from)
    /\ ~existsSync(files, dirs, moves[1].to)

\* C11: in a --fix run the backup is written, with the content read at the
\* start of the run, before the registry is overwritten: whenever the
\* registry file differs from what it held when the run started, the .bak
\* file exists and holds exactly that pre-run content.
C11_BackupBeforeWrite ==
    regFile # regFile0 => (bakFile # NoFile /\ bakFile = regFile0)

\* a second run that has rewritten a registry which the first run had
\* rewritten too: the backup now holds the first run's output
C11_Witness ==
    /\ run = 2
    /\ regFile # regFile0
    /\ bakFile = regFile0
    /\ bakFile.fmt = "yaml"
    /\ bakFile.doc.agents # regFile.doc.agents

\* index.get(base) has exactly one entry, and that file is in the tree
SingleCandidate(to) ==
    LET base == toLowerCase(basename(to))
    IN  /\ base \in DOMAIN index
        /\ Cardinality(index[base]) = 1
        /\ index[base] \subseteq DOMAIN files

AmbiguousRecord ==
    /\ pc = "rescue"
    /\ ri <= Len(want)
    /\ ~existsSync(files, dirs, want[ri])
    /\ toLowerCase(basename(want[ri])) \in DOMAIN index
    /\ Cardinality(index[toLowerCase(basename(want[ri]))]) >= 2

\* C13: a step of the rescue loop for a record whose target does not exist and
\* whose basename has two or more candidates in the index adds one to the
\* ambiguous counter, reports every candidate path, moves no file, and goes
\* on to the next record.
C13_AmbiguousCounted ==
    [][AmbiguousRecord
       => /\ "ambiguous" \in DOMAIN RescueCounters
          /\ RescueCounters'.ambiguous = RescueCounters.ambiguous + 1
          /\ log' = Append(log, [op |-> "ambiguous",
                                 from |-> index[toLowerCase(basename(want[ri]))],
                                 to |-> want[ri]])
          /\ files' = files /\ dirs' = dirs
          /\ ri' = ri + 1 /\ pc' = "rescue"]_vars

\* C14: a step of the rescue loop for a record whose target does not exist and
\* whose lower-cased basename is no key of the index adds exactly one to
\* missing, reports the unresolved target, and leaves the tree and the other
\* counters as they were, whatever else the index holds.
C14_NoCandidateMissing ==
    [][(/\ pc = "rescue"
        /\ ri <= Len(want)
        /\ ~existsSync(files, dirs, want[ri])
        /\ toLowerCase(basename(want[ri])) \notin DOMAIN index)
       => /\ missing' = missing + 1
          /\ moved' = moved /\ skipped' = skipped
          /\ log' = Append(log, [op |-> "missing", from |-> "", to |-> want[ri]])
          /\ files' = files /\ dirs' = dirs
          /\ ri' = ri + 1 /\ pc' = "rescue"]_vars

\* a finished pass that counted a record as missing although the index held
\* other basenames, and left the tree as it found it
C14_Witness ==
    /\ pc = "done"
    /\ exitCode = 0
    /\ missing = 1
    /\ Len(log) = 1
    /\ log[1].op = "missing"
    /\ index # <<>>
    /\ files = files0
    /\ dirs = dirs0

\* C15: every accepted record's category is a declared category key, the root
\* category key or the fixed default key; a key that is neither declared nor
\* root falls back to the default even when an alias produced it.
C15_CategoryDeclaredRootOrDefault ==
    \A k \in 1..Len(kept) :
        kept[k].category \in
            declaredKeys(data.categories) \cup {rootCategoryKey, DefaultCategory}

\* the report holds an unknown-category warning for the record named n
HasCategoryWarning(n) ==
    \E j \in 1..Len(problems) :
        /\ problems[j].level = "warn"
        /\ problems[j].msg = "Unknown category"
        /\ problems[j].name = n

\* C16: an accepted record has a category warning exactly when its category
\* after alias substitution is neither a declared key nor the root key; the
\* empty category is such a category.
C16_WarningIffUnknownCategory ==
    \A i \in FirstIdx :
        HasCategoryWarning(agents[i].name)
        <=> (AliasedCategory(agents[i]) \notin
                declaredKeys(data.categories) \cup {rootCategoryKey})

\* the processed records without an identity key, and the error entries
NamelessIdx == {i \in Processed : agents[i].name = ""}
ErrorEntries == {j \in 1..Len(problems) : problems[j].level = "error"}

\* C17: a record is left out of kept only when it has no identity key or
\* repeats an earlier key: each record without a key gives one error entry and
\* is left out, every processed record is either kept, removed as a duplicate
\* or reported as nameless, kept is the input's first occurrences of non-empty
\* keys in order, and the loop ends only after the last record.
C17_OnlyNamelessOrRepeatExcluded ==
    /\ Cardinality(ErrorEntries) = Cardinality(NamelessIdx)
    /\ \A j \in ErrorEntries : problems[j].msg = "Agent without name"
    /\ \A k \in 1..Len(kept) : kept[k].name # ""
    /\ Len(kept) + Len(removed) + Cardinality(NamelessIdx) = idx - 1
    /\ Len(kept) = Cardinality(FirstIdx)
    /\ \A i \in FirstIdx : kept[RankIn(FirstIdx, i)].name = agents[i].name
    /\ pc = "done" => idx > Len(agents)

\* a finished run over a nameless record followed by a named record that has
\* an unknown category and no path: the first is reported, the second kept
C17_Witness ==
    /\ pc = "done"
    /\ Len(agents) = 2
    /\ agents[1].name = ""
    /\ agents[2].name # ""
    /\ agents[2].category = "bogus"
    /\ agents[2].source_file = ""
    /\ Len(kept) = 1
    /\ kept[1].name = agents[2].name
    /\ problems[1].level = "error"

\* the report holds a missing-path warning for the record named n
HasSynthesisWarning(n) ==
    \E j \in 1..Len(problems) :
        /\ problems[j].level = "warn"
        /\ problems[j].msg = "Missing source_file"
        /\ problems[j].name = n

\* the accepted records whose declared path is empty
EmptyPathIdx == {i \in FirstIdx : trim(agents[i].source_file) = ""}

\* C18: for every accepted record whose declared path is empty the path is
\* synthesized as kebab(identity key) followed by ".md": a warning is emitted
\* for the record, its canonical path is not empty and is the synthesized
\* name placed under the record's directory, and the planned move starts
\* from the synthesized name.
C18_EmptyPathSynthesized ==
    \A i \in EmptyPathIdx :
        LET out == kept[RankIn(FirstIdx, i)]
            guessed == toKebab(agents[i].name) \o ".md"
        IN  /\ HasSynthesisWarning(agents[i].name)
            /\ out.source_file # ""
            /\ out.source_file =
                  (IF startsWith(guessed, RequiredDir(out) \o "/") THEN guessed
                   ELSE RequiredDir(out) \o "/" \o basename(guessed))
            /\ \A j \in 1..Len(moves) :
                  moves[j].name = agents[i].name
                  => moves[j].from = guessed /\ moves[j].to = out.source_file

\* a finished run that kept a record with an empty path whose identity key is
\* not in kebab form, under a declared category whose folder is not its key
C18_Witness ==
    /\ pc = "done"
    /\ Len(kept) = 1
    /\ agents[1].source_file = ""
    /\ agents[1].name = "X y"
    /\ kept[1].source_file = "agents/core/x-y.md"
    /\ Len(moves) = 1
    /\ moves[1].from = "x-y.md"

\* the characters toKebab may return
KebabOutputSet == LowerSet \cup DigitSet \cup {".", "_", "/", "-"}

\* what toKebab returned at line 136 for the record of move m
SynthesizedStem(m) == SubSeq(m.from, 1, Len(m.from) - Len(".md"))

\* C19: toKebab is idempotent and returns only lower-case letters, digits,
\* ".", "_", "/" and hyphens that never follow one another: so it is for the
\* name of every record of the registry, and for what the record loop got
\* from toKebab when it synthesized a path, whose second normalization at
\* line 142 left the basename as it was.
C19_ToKebabIdempotent ==
    /\ \A i \in 1..Len(agents) :
          LET k == toKebab(agents[i].name)
          IN  /\ toKebab(k) = k
              /\ \A j \in 1..Len(k) :
                    /\ CharAt(k, j) \in KebabOutputSet
                    /\ j < Len(k) => SubSeq(k, j, j + 1) # "--"
    /\ \A j \in 1..Len(moves) :
          LET k == SynthesizedStem(moves[j])
          IN  /\ \E i \in 1..Len(agents) : k = toKebab(agents[i].name)
              /\ toKebab(k) = k
              /\ Chars(k) \subseteq KebabOutputSet
              /\ basename(moves[j].to) = basename(moves[j].from)

\* a finished run on a name with an upper-case letter, a space and an
\* ampersand
C19_Witness ==
    /\ pc = "done"
    /\ agents[1].name = "B &"
    /\ Len(moves) = 1
    /\ moves[1].from = "b-and.md"
    /\ kept[1].source_file = "01-core-development/b-and.md"

\* C20: for an accepted record whose declared path does not start with its
\* directory (the category folder, or the root folder for the root category)
\* the canonical path is that directory, "/" and the kebab form of the declared
\* path's basename; for one whose declared path starts with the directory,
\* the directory part of the declared path is kept and only the basename is
\* replaced by its kebab form.
C20_CanonicalPathConstruction ==
    \A i \in FirstIdx :
        LET out == kept[RankIn(FirstIdx, i)]
            src == DeclaredPath(agents[i])
            dir == RequiredDir(out)
        IN  out.source_file =
               (IF startsWith(src, dir \o "/")
                THEN dirname(src) \o "/" \o toKebab(basename(src))
                ELSE dir \o "/" \o toKebab(basename(src)))

\* the accepted records whose declared (or synthesized) path is not the
\* canonical path the record was given
MoveIdx ==
    {i \in FirstIdx :
        DeclaredPath(agents[i]) # kept[RankIn(FirstIdx, i)].source_file}

\* C21: the move list holds, in input order, exactly one move for each
\* accepted record whose path differs from its canonical path, from the
\* declared or synthesized path to the canonical path and tagged with the
\* record's identity key, and nothing else: no move goes from a path to
\* itself and no nameless or repeated record has a move.
C21_MoveListExact ==
    /\ Len(moves) = Cardinality(MoveIdx)
    /\ \A i \in MoveIdx :
          moves[RankIn(MoveIdx, i)] =
              [from |-> DeclaredPath(agents[i]),
               to |-> kept[RankIn(FirstIdx, i)].source_file,
               name |-> agents[i].name]
    /\ \A j \in 1..Len(moves) : moves[j].from # moves[j].to

\* a finished run over two accepted records of which only the second has a
\* path that is not canonical
C21_Witness ==
    /\ pc = "done"
    /\ Len(kept) = 2
    /\ Len(moves) = 1
    /\ moves[1].name = kept[2].name
    /\ kept[1].source_file = agents[1].source_file
    /\ agents[2].source_file # ""

\* the apply loop is at a move whose source is neither at its fromPath nor
\* at fromPath's basename under the process root
UnresolvedMove ==
    /\ pc = "apply"
    /\ mi <= Len(moves)
    /\ ~existsSync(files, dirs, moves[mi].from)
    /\ ~existsSync(files, dirs, basename(moves[mi].from))

\* C22: a step of the apply loop for a move whose source is found neither at
\* fromPath nor by the basename-at-root fallback reports it and leaves the
\* tree as it was: no file is moved and no directory is created.
C22_UnresolvedMoveLeavesTree ==
    [][UnresolvedMove
       => /\ Len(log') = Len(log) + 1
          /\ files' = files
          /\ dirs' = dirs]_vars

\* C23: a step of the apply loop renames nothing, or renames to toPath the
\* file at fromPath when fromPath exists, and otherwise the file that has
\* fromPath's basename directly under the process root; it reports a move as
\* not found only when neither exists.
C23_FallbackOnlyWhenMissing ==
    [][(pc = "apply" /\ mi <= Len(moves))
       => LET from == moves[mi].from
              to == moves[mi].to
              source == IF existsSync(files, dirs, from) THEN from
                        ELSE basename(from)
          IN  /\ \/ /\ files' = files
                    /\ Len(log') = Len(log) + 1
                    /\ log'[Len(log')].op # "mv"
                 \/ /\ existsSync(files, dirs, source)
                    /\ files' = renameFiles(files, source, to)
                    /\ log' = Append(log, [op |-> "mv", from |-> source,
                                           to |-> to])
              /\ (Len(log') > Len(log) /\ log'[Len(log')].op = "skip")
                    => ~existsSync(files, dirs, source)]_vars

\* a finished run whose only move had no file at its fromPath and took the
\* file of that basename from the process root
C23_Witness ==
    /\ pc = "done"
    /\ Len(moves) = 1
    /\ Len(log) = 1
    /\ log[1].op = "mv"
    /\ log[1].from # moves[1].from
    /\ log[1].from = basename(moves[1].from)
    /\ moves[1].from \notin DOMAIN files0
    /\ moves[1].to \in DOMAIN files

\* C24: the rescue pass never overwrites a file: a step for a record whose
\* target exists adds one to skipped and changes nothing in the tree, a step
\* that changes the tree renames onto a target that did not exist, and the
\* tree holds as many files after any step, and so after the run, as when the
\* run started.
C24_RescueNeverOverwrites ==
    [][(pc = "rescue" /\ ri <= Len(want))
       => /\ existsSync(files, dirs, want[ri])
                => /\ skipped' = skipped + 1
                   /\ moved' = moved /\ missing' = missing
                   /\ files' = files /\ dirs' = dirs /\ log' = log
          /\ files' # files
                => /\ ~existsSync(files, dirs, want[ri])
                   /\ \A p \in DOMAIN files \cap DOMAIN files' :
                         files'[p] = files[p]
          /\ Cardinality(DOMAIN files') = Cardinality(DOMAIN files)
          /\ Cardinality(DOMAIN files') = Cardinality(DOMAIN files0)]_vars

\* a finished pass that skipped a record whose target held a file while the
\* index listed a second file of the same basename
C24_Witness ==
    /\ pc = "done"
    /\ exitCode = 0
    /\ Len(want) = 1
    /\ skipped = 1
    /\ want[1] \in DOMAIN files
    /\ Cardinality(index[toLowerCase(basename(want[1]))]) = 2
    /\ files = files0

\* the description warnings the report holds for the record named n
DescriptionWarnings(n) ==
    {j \in 1..Len(problems) :
        /\ problems[j].level = "warn"
        /\ problems[j].msg = "Description >160 chars"
        /\ problems[j].name = n}

\* C25: a description longer than 160 characters gives exactly one warning
\* for the record and never a rejection: the record is accepted with its
\* description unchanged, and a description of 160 characters or fewer gives
\* no description warning.
C25_LongDescriptionWarnsOnly ==
    /\ Len(kept) = Cardinality(FirstIdx)
    /\ \A i \in FirstIdx :
          /\ kept[RankIn(FirstIdx, i)].description = agents[i].description
          /\ Cardinality(DescriptionWarnings(agents[i].name)) =
                (IF Len(agents[i].description) > DescriptionLimit THEN 1 ELSE 0)

\* a finished run that kept a record whose description is one character over
\* the limit and a record whose description is exactly at the limit
C25_Witness ==
    /\ pc = "done"
    /\ Len(kept) = 2
    /\ Len(kept[1].description) = DescriptionLimit + 1
    /\ Len(kept[2].description) = DescriptionLimit
    /\ Cardinality(DescriptionWarnings(kept[1].name)) = 1
    /\ DescriptionWarnings(kept[2].name) = {}

\* a finished --fix --apply-moves run all of whose planned moves had their
\* source file in the tree at the start and were carried out without failure
CleanApplyRun ==
    /\ pc = "done"
    /\ exitCode = 0
    /\ FIX /\ APPLY_MOVES
    /\ \A j \in 1..Len(moves) : moves[j].from \in DOMAIN files0
    /\ Len(log) = Len(moves)
    /\ \A j \in 1..Len(log) : log[j].op = "mv"

\* C26: after such a run the canonical path of every accepted record whose
\* file was in the tree holds a file, and every file that was in the tree
\* before the run is still in it, at its old place or a new one.
C26_NoFileLost ==
    CleanApplyRun
    => /\ \A i \in FirstIdx :
             DeclaredPath(agents[i]) \in DOMAIN files0
             => kept[RankIn(FirstIdx, i)].source_file \in DOMAIN files
       /\ \A p \in DOMAIN files0 : \E q \in DOMAIN files : files[q] = files0[p]

\* the records the pass reported as ambiguous, for which the script keeps no
\* counter
AmbiguousReports == Cardinality({j \in 1..Len(log) : log[j].op = "ambiguous"})

\* C27: at the end of a rescue run every wanted target has been counted in
\* exactly one outcome: moved, skipped, missing and the ambiguous reports add
\* up to the number of records that have a target path.
C27_EveryTargetCounted ==
    (pc = "done" /\ exitCode = 0)
    => moved + skipped + missing + AmbiguousReports = Len(want)

\* the run has written the document
DocumentWritten ==
    /\ FIX
    /\ pc = "apply" \/ (pc = "done" /\ exitCode = 0)

\* C28: the document --fix writes differs from the one it read only in its
\* record list: it has the same top-level fields with the same values, every
\* kept record has the fields of the input record it comes from, unchanged
\* but for category and declared path, and the parsed record list is still
\* what was read.
C28_OnlyRecordListChanges ==
    DocumentWritten
    => /\ DOMAIN regFile.doc = DOMAIN raw.doc
       /\ \A f \in DOMAIN raw.doc \ {"agents"} : regFile.doc[f] = raw.doc[f]
       /\ Len(regFile.doc.agents) = Cardinality(FirstIdx)
       /\ \A i \in FirstIdx :
             LET out == regFile.doc.agents[RankIn(FirstIdx, i)]
                 orig == raw.doc.agents[i]
             IN  /\ DOMAIN out = DOMAIN orig
                 /\ \A f \in DOMAIN orig \ {"category", "source_file"} :
                       out[f] = orig[f]
       /\ data = raw.doc

\* a finished --fix run that wrote a record list different from the one it
\* read, with a kept record that has a description and a new path
C28_Witness ==
    /\ pc = "done"
    /\ exitCode = 0
    /\ FIX
    /\ regFile.doc.agents # raw.doc.agents
    /\ Len(regFile.doc.agents) = 1
    /\ Len(raw.doc.agents) = 2
    /\ regFile.doc.agents[1].description = "lead"
    /\ regFile.doc.agents[1].source_file # raw.doc.agents[1].source_file
    /\ regFile.doc.version = "1"
====
